---- MODULE Spec2Model ----
(***************************************************************************)
(* A model of rustchain_monitor.py: the command line dispatch of main, the *)
(* polling loop of RustChainMonitor.watch_miner, the one-shot report of    *)
(* RustChainMonitor.network_summary and the reward estimate of             *)
(* RustChainMonitor.calculate_expected_reward.                             *)
(*                                                                         *)
(* Representation.                                                         *)
(*  - A Python string that the program inspects character by character   *)
(*    (device_arch, which is lower-cased) is a sequence of one-character   *)
(*    strings.  Miner ids are only compared for equality and are strings.  *)
(*  - A JSON object with an optional key is a record with a `present`      *)
(*    flag (epoch and balance replies) or a field holding Absent (the      *)
(*    `miner`, `miner_id` keys of a miner entry).                          *)
(*  - RTC amounts are integers counting 1/Sub of a micro-RTC (1e-6 RTC),   *)
(*    so that amounts finer than the six printed decimals exist.  Float    *)
(*    subtraction is taken as exact on this grid.                          *)
(*  - Multipliers are in tenths, base_reward in tenths, expected rewards   *)
(*    in hundredths of an RTC.                                             *)
(*  - The console is a set of flags and values: what the current cycle    *)
(*    has printed.  Box drawing and the clock are not modelled.            *)
(***************************************************************************)
EXTENDS Integers, Sequences, FiniteSets, TLC

VARIABLES
    pc,               \* position of the program
    args,             \* argparse namespace: miner, watch, interval
    mode,             \* the branch main took
    miner_id,         \* watch_miner's parameter
    interval,         \* watch_miner's parameter
    last_balance,     \* watch_miner local
    last_epoch,       \* watch_miner local
    epoch_data,       \* watch_miner local: reply of /epoch
    balance,          \* watch_miner local
    miners,           \* local of watch_miner and of network_summary
    our_miner,        \* watch_miner local: index into miners, 0 for None
    current_epoch,    \* watch_miner local
    expected,         \* watch_miner local; result of calculate_expected_reward
    frame,            \* console: the status lines printed by this cycle
    alert,            \* console: "NEW EPOCH" printed by this cycle
    shown,            \* console: the reward printed with the alert, micro-RTC
    err_printed,      \* console: "Error" printed by this cycle
    farewell,         \* console: "Monitoring stopped" printed
    raised_at,        \* where the current cycle left its try body
    exc,              \* the exception that left the program, if any
    slept,            \* sleeps that returned since this cycle's first fetch
    carried_balance,  \* last_balance as it was when this cycle started
    carried_epoch,    \* last_epoch as it was when this cycle started
    entered_loop,     \* the while loop of watch_miner was entered
    queries,          \* calls of get_miner_balance made by main itself
    by_arch,          \* network_summary local
    miner_count,      \* console: the "Miners:" line of the summary
    hist_printed,     \* console: the histogram lines of the summary
    device_arch       \* calculate_expected_reward's parameter

vars == <<pc, args, mode, miner_id, interval, last_balance, last_epoch,
          epoch_data, balance, miners, our_miner, current_epoch, expected,
          frame, alert, shown, err_printed, farewell, raised_at, exc, slept,
          carried_balance, carried_epoch, entered_loop, queries, by_arch,
          miner_count, hist_printed, device_arch>>

----------------------------------------------------------------------------
(* Bounds of the model *)

\* largest epoch number the node reports
MaxEpoch == 2
\* largest balance the node reports, in units of 1/Sub micro-RTC
MaxBalance == 4
\* units per micro-RTC: the resolution of balances below the printed digits
Sub == 3
\* longest miner list drawn for the lookup and the summary
MaxMiners == 2
\* longest free-form device_arch string drawn for the reward estimate
MaxArchLen == 2

----------------------------------------------------------------------------
(* Strings *)

Absent == "<absent>"

UpperAlpha == << "A", "B", "C", "D", "E", "F", "G", "H", "I", "J", "K", "L", "M",
                 "N", "O", "P", "Q", "R", "S", "T", "U", "V", "W", "X", "Y", "Z" >>
LowerAlpha == << "a", "b", "c", "d", "e", "f", "g", "h", "i", "j", "k", "l", "m",
                 "n", "o", "p", "q", "r", "s", "t", "u", "v", "w", "x", "y", "z" >>

\* str.lower() on one character
LowerChar(c) ==
    IF \E i \in DOMAIN UpperAlpha : UpperAlpha[i] = c
    THEN LowerAlpha[CHOOSE i \in DOMAIN UpperAlpha : UpperAlpha[i] = c]
    ELSE c

\* str.lower()
Lower(s) == [i \in DOMAIN s |-> LowerChar(s[i])]

\* str.upper() on one character and on a string: used to build inputs only
UpperChar(c) ==
    IF \E i \in DOMAIN LowerAlpha : LowerAlpha[i] = c
    THEN UpperAlpha[CHOOSE i \in DOMAIN LowerAlpha : LowerAlpha[i] = c]
    ELSE c

Upper(s) == [i \in DOMAIN s |-> UpperChar(s[i])]

Capitalized(s) == [i \in DOMAIN s |-> IF i = 1 THEN UpperChar(s[i]) ELSE s[i]]

----------------------------------------------------------------------------
(* calculate_expected_reward *)

KeyG4 == << "g", "4" >>
KeyG5 == << "g", "5" >>
KeyG3 == << "g", "3" >>
KeyPower8 == << "p", "o", "w", "e", "r", "8" >>
KeyRetro == << "r", "e", "t", "r", "o" >>
KeyAppleSilicon == << "a", "p", "p", "l", "e", "_", "s", "i", "l", "i", "c", "o", "n" >>
KeyModern == << "m", "o", "d", "e", "r", "n" >>
Unknown == << "u", "n", "k", "n", "o", "w", "n" >>

\* the dict `multipliers`, values in tenths
multipliers ==
    (KeyG4 :> 25) @@ (KeyG5 :> 20) @@ (KeyG3 :> 18) @@ (KeyPower8 :> 15) @@
    (KeyRetro :> 14) @@ (KeyAppleSilicon :> 12) @@ (KeyModern :> 10)

\* base_reward, in tenths of an RTC
base_reward == 15

\* the default of multipliers.get, in tenths
default_multiplier == 10

\* dict.get(key, default)
DictGet(d, key, default) == IF key \in DOMAIN d THEN d[key] ELSE default

\* Mutant: the table is consulted with device_arch as given, not lower-cased.
LookupKeyAsGiven(arch) == arch

\* the key the table is consulted with
LookupKey(arch) == Lower(arch)

\* calculate_expected_reward(device_arch), in hundredths of an RTC
calculate_expected_reward(arch) ==
    LET multiplier == DictGet(multipliers, LookupKey(arch), default_multiplier)
    IN  base_reward * multiplier

----------------------------------------------------------------------------
(* Replies of the node *)

\* a JSON object with one optional integer key
Reply(values) ==
    {[present |-> FALSE, value |-> 0]} \cup
    {[present |-> TRUE, value |-> v] : v \in values}

\* /epoch: {"current_epoch": n}, or an object without the key
EpochReplies == Reply(0..MaxEpoch)

\* /wallet/balance: {"balance_rtc": x}, or an object without the key
BalanceReplies == Reply(0..MaxBalance)

\* dict.get(key, default) on such an object
ReplyGet(reply, default) == IF reply.present THEN reply.value ELSE default

\* miner ids known to the node; args.miner may be one of these
Ids == {"a", "b"}

\* device_arch of an entry: the key is missing, is JSON null, or is a string
ArchMissing == << "<missing>" >>
ArchNull == << "<null>" >>
ArchG4Upper == << "G", "4" >>
ArchXyz == << "x", "y", "z" >>

\* /api/miners entries that are JSON objects, with device_arch drawn from archs
MinerObjects(archs) ==
    [miner : Ids \cup {Absent}, miner_id : Ids \cup {Absent},
     device_arch : archs, object : {TRUE}]

\* an element of the miner list that is not a JSON object (it has no .get)
NonObject ==
    [miner |-> Absent, miner_id |-> Absent, device_arch |-> ArchMissing,
     object |-> FALSE]

\* all sequences over S of length at most n
SeqUpTo(S, n) == UNION {[1..k -> S] : k \in 0..n}

\* miner lists as the API documents them: objects whose device_arch, when
\* present, is a string
ApiLists == SeqUpTo(MinerObjects({ArchMissing, ArchG4Upper, KeyG5}), MaxMiners)

Entry(m, mid, arch) ==
    [miner |-> m, miner_id |-> mid, device_arch |-> arch, object |-> TRUE]

\* the miner lists the polling loop and main's summary are run against
WatchLists ==
    { << >>,
      << Entry("a", Absent, ArchG4Upper) >>,
      << Entry("b", Absent, KeyG5), Entry("b", "a", ArchMissing) >>,
      << Entry("b", "b", ArchXyz) >>,
      << Entry(Absent, "a", ArchNull) >>,
      << Entry("b", Absent, KeyG5), NonObject >> }

----------------------------------------------------------------------------
(* watch_miner: the pure parts of one cycle *)

\* get_miner_balance's return value for a reply
get_miner_balance(reply) == ReplyGet(reply, 0)

\* Mutant: only the `miner` key is compared.
MatchesMinerKeyOnly(m, id) == m.miner = id

\* the test of line 88; a missing key gives None, which equals no miner id
Matches(m, id) == m.miner = id \/ m.miner_id = id

\* the loop of lines 86-90 from index i on: the index of the entry bound to
\* our_miner, 0 when our_miner stays None, -1 when m.get raises
RECURSIVE FindFrom(_, _, _)
FindFrom(ms, id, i) ==
    IF i > Len(ms) THEN 0
    ELSE IF ~ms[i].object THEN -1
    ELSE IF Matches(ms[i], id) THEN i
    ELSE FindFrom(ms, id, i + 1)

FindMiner(ms, id) == FindFrom(ms, id, 1)

\* truth value of `our_miner` in line 106: None and the empty dict are false
Truthy(ms, idx) ==
    /\ idx > 0
    /\ \/ ms[idx].miner # Absent
       \/ ms[idx].miner_id # Absent
       \/ ms[idx].device_arch # ArchMissing

\* m.get("device_arch", "unknown")
ArchOf(m) == IF m.device_arch = ArchMissing THEN Unknown ELSE m.device_arch

\* Mutant: the first-iteration guard last_epoch > 0 is dropped.
NewEpochUnguarded(cur, last) == cur > last

\* the test of line 120
NewEpoch(cur, last) == cur > last /\ last > 0

\* Mutant: a decrease is clamped to zero.
RewardClamped(bal, last) == IF bal - last < 0 THEN 0 ELSE bal - last

\* line 121
Reward(bal, last) == bal - last

\* n / d rounded to the nearest integer, ties to even; n >= 0, d > 0
RoundHalfEven(n, d) ==
    LET q == n \div d
        r == n % d
    IN  IF 2 * r < d THEN q
        ELSE IF 2 * r > d THEN q + 1
        ELSE IF q % 2 = 0 THEN q ELSE q + 1

\* f"{reward:.6f}": the amount as printed, in micro-RTC
Format6(r) == IF r >= 0 THEN RoundHalfEven(r, Sub) ELSE 0 - RoundHalfEven(0 - r, Sub)

----------------------------------------------------------------------------
(* network_summary: the pure parts *)

\* Mutant: the count of an architecture is set to 1 instead of incremented.
BumpForgetful(acc, a) ==
    IF a \in DOMAIN acc THEN [acc EXCEPT ![a] = 1] ELSE acc @@ (a :> 1)

\* by_arch[arch] = by_arch.get(arch, 0) + 1
Bump(acc, a) ==
    IF a \in DOMAIN acc THEN [acc EXCEPT ![a] = @ + 1] ELSE acc @@ (a :> 1)

\* the loop of lines 151-154 from index i on
RECURSIVE GroupFrom(_, _, _)
GroupFrom(ms, i, acc) ==
    IF i > Len(ms) THEN acc
    ELSE GroupFrom(ms, i + 1, Bump(acc, ArchOf(ms[i])))

EmptyDict == [a \in {} |-> 0]

GroupByArch(ms) == GroupFrom(ms, 1, EmptyDict)

\* the sum of a dict's values
RECURSIVE SumOver(_, _)
SumOver(f, S) ==
    IF S = {} THEN 0
    ELSE LET a == CHOOSE x \in S : TRUE
         IN  f[a] + SumOver(f, S \ {a})

SumValues(f) == SumOver(f, DOMAIN f)

----------------------------------------------------------------------------
(* Initial states *)

\* a reply-typed local that holds no reply
NoReply == [present |-> FALSE, value |-> 0]

\* the values every specification starts the locals and the console with
InitLocals ==
    /\ last_balance = 0
    /\ last_epoch = 0
    /\ epoch_data = NoReply
    /\ balance = 0
    /\ our_miner = 0
    /\ current_epoch = 0
    /\ expected = 0
    /\ frame = "none"
    /\ alert = FALSE
    /\ shown = 0
    /\ err_printed = FALSE
    /\ farewell = FALSE
    /\ exc = "none"
    /\ slept = 0
    /\ carried_balance = 0
    /\ carried_epoch = 0
    /\ queries = 0
    /\ by_arch = EmptyDict
    /\ miner_count = 0
    /\ hist_printed = "none"

\* what argparse can hand to main: --miner absent, empty or an id; --watch
\* given or not; --interval any integer (type=int accepts a negative one)
ArgSets == [miner : {Absent, ""} \cup Ids, watch : BOOLEAN, interval : {-1, 1}]

\* main is entered with a parsed command line
Init ==
    /\ pc = "main"
    /\ args \in ArgSets
    /\ mode = "none"
    /\ miner_id = Absent
    /\ interval = 0
    /\ miners = << >>
    /\ device_arch = << >>
    /\ raised_at = "start"
    /\ entered_loop = FALSE
    /\ InitLocals

----------------------------------------------------------------------------
(* main *)

\* Mutant: the flag is tested with `is not None`, so an empty id counts.
StrTruthyNotNone(s) == s # Absent

\* truth value of args.miner: None and the empty string are false
StrTruthy(s) == s # Absent /\ s # ""

\* lines 171-178: the branch taken
Dispatch ==
    /\ pc = "main"
    /\ IF StrTruthy(args.miner) /\ args.watch
       THEN /\ mode' = "watch"
            /\ miner_id' = args.miner
            /\ interval' = args.interval
            /\ pc' = "watch_miner"
       ELSE IF StrTruthy(args.miner)
       THEN /\ mode' = "balance"
            /\ pc' = "get_miner_balance"
            /\ UNCHANGED <<miner_id, interval>>
       ELSE /\ mode' = "summary"
            /\ pc' = "network_summary"
            /\ UNCHANGED <<miner_id, interval>>
    /\ UNCHANGED <<args, last_balance, last_epoch, epoch_data, balance, miners,
                   our_miner, current_epoch, expected, frame, alert, shown,
                   err_printed, farewell, raised_at, exc, slept,
                   carried_balance, carried_epoch, entered_loop, queries,
                   by_arch, miner_count, hist_printed, device_arch>>

\* lines 174-176: one balance query, printed
BalanceQuery ==
    /\ pc = "get_miner_balance"
    /\ \E b \in BalanceReplies : balance' = get_miner_balance(b)
    /\ queries' = queries + 1
    /\ pc' = "done"
    /\ UNCHANGED <<args, mode, miner_id, interval, last_balance, last_epoch,
                   epoch_data, miners, our_miner, current_epoch, expected,
                   frame, alert, shown, err_printed, farewell, raised_at, exc,
                   slept, carried_balance, carried_epoch, entered_loop,
                   by_arch, miner_count, hist_printed, device_arch>>

\* line 174 raises (network, JSON): nothing catches it
BalanceQueryRaises ==
    /\ pc = "get_miner_balance"
    /\ queries' = queries + 1
    /\ pc' = "uncaught"
    /\ exc' = "Exception"
    /\ UNCHANGED <<args, mode, miner_id, interval, last_balance, last_epoch,
                   epoch_data, balance, miners, our_miner, current_epoch,
                   expected, frame, alert, shown, err_printed, farewell,
                   raised_at, slept, carried_balance, carried_epoch,
                   entered_loop, by_arch, miner_count, hist_printed,
                   device_arch>>

----------------------------------------------------------------------------
(* network_summary *)

\* lines 138-158 with the three fetches returning; lists is the set the miner
\* list is drawn from
NetworkSummary(lists) ==
    /\ pc = "network_summary"
    /\ \E ms \in lists :
         /\ miners' = ms
         /\ miner_count' = Len(ms)
         /\ IF \E i \in 1..Len(ms) : ~ms[i].object
            THEN \* line 153: m.get raises AttributeError
                 /\ by_arch' = by_arch
                 /\ hist_printed' = "none"
                 /\ pc' = "uncaught"
                 /\ exc' = "Exception"
            ELSE /\ by_arch' = GroupByArch(ms)
                 /\ IF ArchNull \in DOMAIN GroupByArch(ms)
                    THEN \* line 158: f"{arch:15}" raises TypeError on None
                         /\ hist_printed' = "partial"
                         /\ pc' = "uncaught"
                         /\ exc' = "Exception"
                    ELSE /\ hist_printed' = "all"
                         /\ pc' = "done"
                         /\ exc' = exc
    /\ UNCHANGED <<args, mode, miner_id, interval, last_balance, last_epoch,
                   epoch_data, balance, our_miner, current_epoch, expected,
                   frame, alert, shown, err_printed, farewell, raised_at,
                   slept, carried_balance, carried_epoch, entered_loop,
                   queries, device_arch>>

\* one of lines 138-140 raises: nothing catches it, nothing is printed
NetworkSummaryFetchRaises ==
    /\ pc = "network_summary"
    /\ pc' = "uncaught"
    /\ exc' = "Exception"
    /\ UNCHANGED <<args, mode, miner_id, interval, last_balance, last_epoch,
                   epoch_data, balance, miners, our_miner, current_epoch,
                   expected, frame, alert, shown, err_printed, farewell,
                   raised_at, slept, carried_balance, carried_epoch,
                   entered_loop, queries, by_arch, miner_count, hist_printed,
                   device_arch>>

----------------------------------------------------------------------------
(* watch_miner *)

\* what no step of the loop changes
outside == <<args, mode, miner_id, interval, entered_loop, queries, by_arch,
             miner_count, hist_printed, device_arch>>

\* lines 72-76: the locals are set and the while loop is entered
WatchMinerEnter ==
    /\ pc = "watch_miner"
    /\ last_balance' = 0
    /\ last_epoch' = 0
    /\ entered_loop' = TRUE
    /\ pc' = "polling"
    /\ UNCHANGED <<args, mode, miner_id, interval, epoch_data, balance, miners,
                   our_miner, current_epoch, expected, frame, alert, shown,
                   err_printed, farewell, raised_at, exc, slept,
                   carried_balance, carried_epoch, queries, by_arch,
                   miner_count, hist_printed, device_arch>>

\* A cycle starts: the console of the cycle is empty, and the values the
\* locals carried into it are recorded.  our_miner, current_epoch and
\* expected are assigned by the cycle before it reads them (lines 86, 92,
\* 109), so what the previous cycle left in them is dropped here.
BeginCycle ==
    /\ carried_balance' = last_balance
    /\ carried_epoch' = last_epoch
    /\ frame' = "none"
    /\ alert' = FALSE
    /\ shown' = 0
    /\ err_printed' = FALSE
    /\ slept' = 0
    /\ our_miner' = 0
    /\ current_epoch' = 0
    /\ expected' = 0

\* the two except clauses of lines 129 and 132
Kinds == {"Exception", "KeyboardInterrupt"}

\* control leaves the try body at `point` with an exception of `kind`
Leave(kind, point) ==
    /\ pc' = IF kind = "KeyboardInterrupt" THEN "except_kbd" ELSE "except_exc"
    /\ raised_at' = point

\* line 81 raises or is interrupted; epoch_data, balance and miners are
\* rebound before they are read again, so they are left holding no reply
GetEpochRaises(kind) ==
    /\ pc = "polling"
    /\ BeginCycle
    /\ epoch_data' = NoReply
    /\ balance' = 0
    /\ miners' = << >>
    /\ Leave(kind, "get_epoch")
    /\ UNCHANGED <<last_balance, last_epoch, farewell, exc>>
    /\ UNCHANGED outside

\* line 81 returns, line 82 raises or is interrupted
GetBalanceRaises(kind) ==
    /\ pc = "polling"
    /\ BeginCycle
    /\ epoch_data' \in EpochReplies
    /\ balance' = 0
    /\ miners' = << >>
    /\ Leave(kind, "get_miner_balance")
    /\ UNCHANGED <<last_balance, last_epoch, farewell, exc>>
    /\ UNCHANGED outside

\* lines 81-82 return, line 83 raises or is interrupted
GetMinersRaises(kind) ==
    /\ pc = "polling"
    /\ BeginCycle
    /\ epoch_data' \in EpochReplies
    /\ \E b \in BalanceReplies : balance' = get_miner_balance(b)
    /\ miners' = << >>
    /\ Leave(kind, "get_miners")
    /\ UNCHANGED <<last_balance, last_epoch, farewell, exc>>
    /\ UNCHANGED outside

\* lines 81-83 all return
Poll ==
    /\ pc = "polling"
    /\ BeginCycle
    /\ epoch_data' \in EpochReplies
    /\ \E b \in BalanceReplies : balance' = get_miner_balance(b)
    /\ miners' \in WatchLists
    /\ pc' = "displaying"
    /\ raised_at' = "polled"
    /\ UNCHANGED <<last_balance, last_epoch, farewell, exc>>
    /\ UNCHANGED outside

\* Mutant: last_epoch only moves forward.
LastEpochAfterMonotone(cur, last) == IF cur > last THEN cur ELSE last

\* line 125: the value last_epoch is given
LastEpochAfter(cur, last) == cur

\* lines 85-125 on the fetched values: the lookup, the status frame, the
\* rollover check and the update of last_balance and last_epoch
Display ==
    /\ pc = "displaying"
    /\ LET idx == FindMiner(miners, miner_id)
           cur == ReplyGet(epoch_data, 0)
       IN  IF idx = -1
           THEN \* line 88: m.get raises AttributeError
                /\ Leave("Exception", "lookup")
                /\ UNCHANGED <<our_miner, current_epoch, expected, frame,
                               alert, shown, last_balance, last_epoch>>
           ELSE IF Truthy(miners, idx) /\ ArchOf(miners[idx]) = ArchNull
           THEN \* line 109: None has no .lower()
                /\ our_miner' = idx
                /\ current_epoch' = cur
                /\ frame' = "header"
                /\ Leave("Exception", "render")
                /\ UNCHANGED <<expected, alert, shown, last_balance,
                               last_epoch>>
           ELSE /\ our_miner' = idx
                /\ current_epoch' = cur
                /\ IF Truthy(miners, idx)
                   THEN /\ expected' = calculate_expected_reward(ArchOf(miners[idx]))
                        /\ frame' = "found"
                   ELSE /\ expected' = expected
                        /\ frame' = "not_found"
                /\ alert' = NewEpoch(cur, last_epoch)
                /\ shown' = IF NewEpoch(cur, last_epoch)
                            THEN Format6(Reward(balance, last_balance))
                            ELSE shown
                /\ last_balance' = balance
                /\ last_epoch' = LastEpochAfter(cur, last_epoch)
                /\ pc' = "sleeping"
                /\ raised_at' = "none"
    /\ UNCHANGED <<epoch_data, balance, miners, err_printed, farewell, exc,
                   slept, carried_balance, carried_epoch>>
    /\ UNCHANGED outside

\* the operator's interrupt arrives in lines 85-90, before our_miner is final
LookupInterrupted ==
    /\ pc = "displaying"
    /\ Leave("KeyboardInterrupt", "lookup")
    /\ UNCHANGED <<last_balance, last_epoch, epoch_data, balance, miners,
                   our_miner, current_epoch, expected, frame, alert, shown,
                   err_printed, farewell, exc, slept, carried_balance,
                   carried_epoch>>
    /\ UNCHANGED outside

\* the operator's interrupt arrives in lines 95-117, while the frame is printed
RenderInterrupted ==
    /\ pc = "displaying"
    /\ FindMiner(miners, miner_id) # -1
    /\ our_miner' = FindMiner(miners, miner_id)
    /\ current_epoch' = ReplyGet(epoch_data, 0)
    /\ frame' = "header"
    /\ Leave("KeyboardInterrupt", "render")
    /\ UNCHANGED <<last_balance, last_epoch, epoch_data, balance, miners,
                   expected, alert, shown, err_printed, farewell, exc, slept,
                   carried_balance, carried_epoch>>
    /\ UNCHANGED outside

\* line 127: time.sleep(interval) returns, or raises ValueError when the
\* interval is negative
Sleep ==
    /\ pc = "sleeping"
    /\ IF interval < 0
       THEN /\ Leave("Exception", "sleep")
            /\ slept' = slept
       ELSE /\ pc' = "polling"
            /\ slept' = slept + 1
            /\ raised_at' = raised_at
    /\ UNCHANGED <<last_balance, last_epoch, epoch_data, balance, miners,
                   our_miner, current_epoch, expected, frame, alert, shown,
                   err_printed, farewell, exc, carried_balance, carried_epoch>>
    /\ UNCHANGED outside

\* the operator's interrupt arrives during the sleep of line 127
SleepInterrupted ==
    /\ pc = "sleeping"
    /\ interval >= 0
    /\ Leave("KeyboardInterrupt", "sleep")
    /\ UNCHANGED <<last_balance, last_epoch, epoch_data, balance, miners,
                   our_miner, current_epoch, expected, frame, alert, shown,
                   err_printed, farewell, exc, slept, carried_balance,
                   carried_epoch>>
    /\ UNCHANGED outside

\* lines 129-131: the farewell is printed, the loop is left, watch_miner
\* returns
HandleInterrupt ==
    /\ pc = "except_kbd"
    /\ farewell' = TRUE
    /\ pc' = "returned"
    /\ UNCHANGED <<last_balance, last_epoch, epoch_data, balance, miners,
                   our_miner, current_epoch, expected, frame, alert, shown,
                   err_printed, raised_at, exc, slept, carried_balance,
                   carried_epoch>>
    /\ UNCHANGED outside

\* lines 132-133: the error is printed
HandleException ==
    /\ pc = "except_exc"
    /\ err_printed' = TRUE
    /\ pc' = "except_sleep"
    /\ UNCHANGED <<last_balance, last_epoch, epoch_data, balance, miners,
                   our_miner, current_epoch, expected, frame, alert, shown,
                   farewell, raised_at, exc, slept, carried_balance,
                   carried_epoch>>
    /\ UNCHANGED outside

\* line 134, inside the except clause: time.sleep(interval) returns and the
\* loop goes on, or raises ValueError, which no clause catches
ExceptSleep ==
    /\ pc = "except_sleep"
    /\ IF interval < 0
       THEN /\ pc' = "uncaught"
            /\ exc' = "ValueError"
            /\ slept' = slept
       ELSE /\ pc' = "polling"
            /\ exc' = exc
            /\ slept' = slept + 1
    /\ UNCHANGED <<last_balance, last_epoch, epoch_data, balance, miners,
                   our_miner, current_epoch, expected, frame, alert, shown,
                   err_printed, farewell, raised_at, carried_balance,
                   carried_epoch>>
    /\ UNCHANGED outside

\* the operator's interrupt arrives during the sleep of line 134: the try
\* statement's except clauses do not cover their own bodies
ExceptSleepInterrupted ==
    /\ pc = "except_sleep"
    /\ interval >= 0
    /\ pc' = "uncaught"
    /\ exc' = "KeyboardInterrupt"
    /\ UNCHANGED <<last_balance, last_epoch, epoch_data, balance, miners,
                   our_miner, current_epoch, expected, frame, alert, shown,
                   err_printed, farewell, raised_at, slept, carried_balance,
                   carried_epoch>>
    /\ UNCHANGED outside

----------------------------------------------------------------------------
(* The program *)

WatchMiner ==
    \/ WatchMinerEnter
    \/ \E kind \in Kinds : GetEpochRaises(kind)
    \/ \E kind \in Kinds : GetBalanceRaises(kind)
    \/ \E kind \in Kinds : GetMinersRaises(kind)
    \/ Poll
    \/ Display
    \/ LookupInterrupted
    \/ RenderInterrupted
    \/ Sleep
    \/ SleepInterrupted
    \/ HandleInterrupt
    \/ HandleException
    \/ ExceptSleep
    \/ ExceptSleepInterrupted

Next ==
    \/ Dispatch
    \/ WatchMiner
    \/ BalanceQuery
    \/ BalanceQueryRaises
    \/ NetworkSummary(WatchLists)
    \/ NetworkSummaryFetchRaises

Spec == Init /\ [][Next]_vars

----------------------------------------------------------------------------
(* The lookup of watch_miner on every miner list, in the first cycle of a   *)
(* loop whose three fetches have returned                                   *)

\* miner lists for the lookup: objects with any combination of the two keys
LookupLists == SeqUpTo(MinerObjects({ArchMissing, ArchG4Upper, ArchNull}), MaxMiners)

InitLookup ==
    /\ pc = "displaying"
    /\ miner_id \in Ids
    /\ args = [miner |-> miner_id, watch |-> TRUE, interval |-> 1]
    /\ mode = "watch"
    /\ interval = 1
    /\ miners \in LookupLists
    /\ device_arch = << >>
    /\ raised_at = "polled"
    /\ entered_loop = TRUE
    /\ InitLocals

NextLookup == Display

SpecLookup == InitLookup /\ [][NextLookup]_vars

----------------------------------------------------------------------------
(* network_summary on every miner list the API documents *)

InitSummary ==
    /\ pc = "network_summary"
    /\ args \in {a \in ArgSets : a.miner = Absent}
    /\ mode = "summary"
    /\ miner_id = Absent
    /\ interval = 0
    /\ miners = << >>
    /\ device_arch = << >>
    /\ raised_at = "start"
    /\ entered_loop = FALSE
    /\ InitLocals

NextSummary ==
    \/ NetworkSummary(ApiLists)
    \/ NetworkSummaryFetchRaises

SpecSummary == InitSummary /\ [][NextSummary]_vars

----------------------------------------------------------------------------
(* calculate_expected_reward on device_arch strings *)

\* the characters free-form device_arch strings are made of
ArchChars == {"g", "G", "3", "4", "5", "x", "X"}

\* every short string over ArchChars, and every table key as written, in
\* upper case and capitalized
ArchInputs ==
    SeqUpTo(ArchChars, MaxArchLen) \cup {Unknown, ArchXyz} \cup
    UNION {{k, Upper(k), Capitalized(k)} : k \in DOMAIN multipliers}

InitReward ==
    /\ pc = "calculate_expected_reward"
    /\ args \in {a \in ArgSets : a.miner = "a" /\ a.watch /\ a.interval = 1}
    /\ mode = "watch"
    /\ miner_id = "a"
    /\ interval = 1
    /\ miners = << >>
    /\ device_arch \in ArchInputs
    /\ raised_at = "polled"
    /\ entered_loop = TRUE
    /\ InitLocals

\* the call of line 109, on its own
CalculateExpectedReward ==
    /\ pc = "calculate_expected_reward"
    /\ expected' = calculate_expected_reward(device_arch)
    /\ pc' = "calculated"
    /\ UNCHANGED <<args, mode, miner_id, interval, last_balance, last_epoch,
                   epoch_data, balance, miners, our_miner, current_epoch,
                   frame, alert, shown, err_printed, farewell, raised_at, exc,
                   slept, carried_balance, carried_epoch, entered_loop,
                   queries, by_arch, miner_count, hist_printed, device_arch>>

NextReward == CalculateExpectedReward

SpecReward == InitReward /\ [][NextReward]_vars

----------------------------------------------------------------------------
(* Properties *)

\* the value of current_epoch for the reply held in epoch_data
FetchedEpoch == ReplyGet(epoch_data, 0)

\* the cycle the console belongs to ran lines 81-125 to the end
BodyCompleted == raised_at \in {"none", "sleep"}

\* the cycle the console belongs to got its three replies
FetchesReturned == raised_at \in {"none", "sleep", "lookup", "render"}

\* the condition of the rollover alert on the values carried into the cycle
Rollover == FetchedEpoch > carried_epoch /\ carried_epoch > 0

\* C1 as stated: in every cycle whose three fetches return and that is not
\* interrupted, the alert is printed if and only if the fetched epoch is
\* above the last_epoch carried into the cycle and that last_epoch is positive.
C1_AlertIffRolloverWhenFetched ==
    (pc \in {"sleeping", "except_exc", "except_sleep"} /\ FetchesReturned)
        => (alert <=> Rollover)

\* C1 amended: in every cycle that runs to the rollover check of line 120 the
\* alert is printed if and only if the fetched epoch is above the last_epoch
\* carried into the cycle and that last_epoch is positive; a cycle that leaves
\* the try body earlier prints no alert; with last_epoch = 0 none is printed.
C1_AlertIffRolloverWhenCheckReached ==
    /\ BodyCompleted => (alert <=> Rollover)
    /\ ~BodyCompleted => ~alert
    /\ carried_epoch = 0 => ~alert

\* a rollover was announced, and a cycle with a higher epoch but last_epoch = 0
\* has completed silently before it
C1_Witness ==
    /\ pc = "sleeping"
    /\ alert
    /\ carried_epoch > 0
    /\ FetchedEpoch > carried_epoch

\* C2 as stated: no exception other than the interrupt ever ends the loop,
\* and every cycle after the first starts its fetches after exactly one sleep.
C2_ErrorsNeverEndTheLoop ==
    /\ ~(mode = "watch" /\ pc = "uncaught" /\ exc # "KeyboardInterrupt")
    /\ (pc = "polling" /\ raised_at # "start") => slept = 1

\* C3 as stated: the loop never ends on an interrupt without the farewell
\* message and a normal return of watch_miner.
C3_InterruptEndsWithFarewell ==
    /\ ~(mode = "watch" /\ pc = "uncaught" /\ exc = "KeyboardInterrupt")
    /\ pc = "returned" => farewell

\* C4 as stated: at the end of every iteration that fetched a balance and an
\* epoch, last_balance and last_epoch hold that iteration's fetched values.
C4_OverwrittenEveryIteration ==
    (pc \in {"sleeping", "except_sleep"} /\ FetchesReturned)
        => (last_balance = balance /\ last_epoch = FetchedEpoch)

\* C4 amended: every iteration that runs lines 81-125 to the end overwrites
\* last_balance and last_epoch with its fetched balance and epoch; an
\* iteration that leaves the try body earlier leaves both as they were
\* carried into it.
C4_OverwrittenWhenBodyCompletes ==
    /\ BodyCompleted => (last_balance = balance /\ last_epoch = FetchedEpoch)
    /\ (entered_loop /\ ~BodyCompleted)
           => (last_balance = carried_balance /\ last_epoch = carried_epoch)

\* an iteration has overwritten both values with different ones, the epoch
\* with a smaller one
C4_Witness ==
    /\ pc = "sleeping"
    /\ last_balance # carried_balance
    /\ last_epoch < carried_epoch

Matching ==
    {i \in 1..Len(miners) :
        miners[i].miner = miner_id \/ miners[i].miner_id = miner_id}

\* C6: after the lookup, our_miner is the first entry of the list whose
\* `miner` or `miner_id` equals miner_id, and "not found" is printed exactly
\* when no entry matches on either key.
C6_FirstMatchOnEitherKey ==
    (pc \in {"sleeping", "except_exc"} /\ raised_at \in {"none", "render"})
        => /\ (Matching = {}) <=> (our_miner = 0)
           /\ Matching # {} =>
                 /\ our_miner \in Matching
                 /\ \A j \in Matching : our_miner <= j
           /\ (frame = "not_found") <=> (Matching = {})
           /\ (frame = "found") => Matching # {}

\* the second entry was selected on its miner_id key while its miner key
\* names another miner
C6_Witness ==
    /\ pc = "sleeping"
    /\ frame = "found"
    /\ our_miner = 2
    /\ miners[2].miner \in Ids \ {miner_id}
    /\ miners[2].miner_id = miner_id

\* the number of entries of the fetched list whose device_arch is a
CountOf(a) ==
    Cardinality({i \in 1..Len(miners) :
        IF a = Unknown
        THEN miners[i].device_arch \in {ArchMissing, Unknown}
        ELSE miners[i].device_arch = a})

\* C7: a completed summary has printed the length of the fetched list as the
\* miner count, and its histogram counts every entry once, entries without
\* device_arch under "unknown", so that the counts sum to that length.
C7_CountsSumToLength ==
    (mode = "summary" /\ pc = "done")
        => /\ miner_count = Len(miners)
           /\ hist_printed = "all"
           /\ SumValues(by_arch) = Len(miners)
           /\ \A a \in DOMAIN by_arch : by_arch[a] = CountOf(a) /\ CountOf(a) > 0
           /\ \A i \in 1..Len(miners) :
                 miners[i].device_arch = ArchMissing => Unknown \in DOMAIN by_arch

\* a summary of two miners, one without device_arch, one with
C7_Witness ==
    /\ mode = "summary"
    /\ pc = "done"
    /\ miner_count = 2
    /\ Unknown \in DOMAIN by_arch
    /\ KeyG5 \in DOMAIN by_arch

\* s is key up to the case of its letters
FoldsTo(s, key) ==
    /\ Len(s) = Len(key)
    /\ \A i \in 1..Len(key) : s[i] = key[i] \/ s[i] = UpperChar(key[i])

\* C8: the result is 1.5 times the multiplier of the table entry that
\* device_arch equals up to case (3.75 for g4, 3.00 for g5, 2.70 for g3,
\* 2.25 for power8, 2.10 for retro, 1.80 for apple_silicon, 1.50 for modern)
\* and 1.50 for every other string; amounts in hundredths.
C8_ExpectedReward ==
    pc = "calculated" =>
        /\ FoldsTo(device_arch, << "g", "4" >>) => expected = 375
        /\ FoldsTo(device_arch, << "g", "5" >>) => expected = 300
        /\ FoldsTo(device_arch, << "g", "3" >>) => expected = 270
        /\ FoldsTo(device_arch, << "p", "o", "w", "e", "r", "8" >>) => expected = 225
        /\ FoldsTo(device_arch, << "r", "e", "t", "r", "o" >>) => expected = 210
        /\ FoldsTo(device_arch,
                   << "a", "p", "p", "l", "e", "_", "s", "i", "l", "i", "c", "o", "n" >>)
              => expected = 180
        /\ FoldsTo(device_arch, << "m", "o", "d", "e", "r", "n" >>) => expected = 150
        /\ (\A k \in DOMAIN multipliers : ~FoldsTo(device_arch, k)) => expected = 150

\* the estimate for "G4" is 3.75
C8_Witness ==
    /\ pc = "calculated"
    /\ device_arch = << "G", "4" >>
    /\ expected = 375

\* the mode the flags select when --miner counts as given whatever its value
ModeByPresence ==
    IF args.miner # Absent /\ args.watch THEN "watch"
    ELSE IF args.miner # Absent THEN "balance"
    ELSE "summary"

\* the mode the flags select when --miner counts as given only with a
\* non-empty value
ModeByValue ==
    IF args.miner \notin {Absent, ""} /\ args.watch THEN "watch"
    ELSE IF args.miner \notin {Absent, ""} THEN "balance"
    ELSE "summary"

\* the summary and the single balance query make one pass and never enter
\* the loop; the watch mode makes neither
OnePass ==
    /\ mode \in {"summary", "balance"} =>
          /\ ~entered_loop
          /\ pc \in {"get_miner_balance", "network_summary", "done", "uncaught"}
    /\ mode = "balance" =>
          /\ queries = IF pc = "get_miner_balance" THEN 0 ELSE 1
          /\ hist_printed = "none"
    /\ mode = "summary" => queries = 0
    /\ mode = "watch" => (queries = 0 /\ hist_printed = "none")

\* C9 as stated: --miner with --watch runs the watch loop, --miner alone the
\* single balance query, and no --miner the summary; the one-shot modes make
\* one pass and never enter the loop.
C9_DispatchOnFlagPresence ==
    pc # "main" => (mode = ModeByPresence /\ OnePass)

\* C9 amended: a non-empty --miner with --watch runs the watch loop, a
\* non-empty --miner alone the single balance query, and an absent or empty
\* --miner (with or without --watch) the summary; the one-shot modes make one
\* pass and never enter the loop.
C9_DispatchOnNonEmptyMiner ==
    pc # "main" => (mode = ModeByValue /\ OnePass)

\* the loop is running for --miner a --watch
C9_Witness ==
    /\ mode = "watch"
    /\ args.miner = "a"
    /\ args.watch
    /\ entered_loop
    /\ pc = "sleeping"

\* C10 as stated: a cycle that ends in the generic exception handler has left
\* last_balance and last_epoch as they were carried into it and has printed
\* no alert.
C10_FailedCycleChangesNothing ==
    pc \in {"except_exc", "except_sleep"}
        => /\ last_balance = carried_balance
           /\ last_epoch = carried_epoch
           /\ ~alert

====
